---- MODULE Spec2Model ----
(***************************************************************************)
(* Persistent-memory append cache (extra/libpmemac/append_cache.c).        *)
(*                                                                         *)
(* One slot of a cache directory is followed through its life: attach,     *)
(* concurrent cache_write calls, the background flusher thread, detach,    *)
(* a crash of the process, and the startup pass pmem_append_cache_flush.   *)
(* Persistent memory (slot header, file name, ring buffer) and the backing *)
(* file survive a crash; the PMEM_APPEND_CACHE descriptor and the threads  *)
(* do not.  The directory file itself (create_directory, the open-time     *)
(* validation, open_cache) is followed in specifications of its own.       *)
(***************************************************************************)
EXTENDS Integers, Sequences, FiniteSets, TLC

(* ------------------------------ bounds -------------------------------- *)
\* number of application threads calling cache_write on the handle
NWriters == 2
\* longest payload of one cache_write call
MaxLen == 3
\* cache_write calls are issued while reserved_eof + length stays within this
MaxEof == 4
\* bytes of the slot region behind the slot header (file name + ring buffer)
BodySize == 4
\* number of process crashes (kill, power loss, abort()) followed
MaxCrashes == 1
\* largest backing file the slot is first attached to
MaxFileSize == 1
\* most slots a directory is created with
MaxCaches == 2
\* largest directory file size passed to create_directory
MaxDirSize == 100

(* ------------------------- program constants -------------------------- *)
\* uint64_t arithmetic: a difference below zero wraps around.  The stand-in
\* modulus is far above every offset, length and size of the model, so a
\* wrapped value exceeds all of them, as 2^64 - x does in the program.
UINT64_MOD == 1073741824

\* sizeof(PMEM_APPEND_CACHE_DIRECTORY_HEADER) without start_offsets[]
DIR_HEADER_SIZE == 16
\* sizeof(uint64_t), one start_offsets[] entry
OFFSET_SIZE == 8
\* sizeof(PMEM_APPEND_CACHE_HEADER)
CACHE_HEADER_SIZE == 24
\* PMEM_APPEND_CACHE_MAGIC, any value a zero-filled file does not hold
PMEM_APPEND_CACHE_MAGIC == 1

Writers == 1..NWriters
\* "f\0": the name of the backing file, with its terminating NUL
FileName == <<7, 0>>
\* a byte the backing file holds before the slot is attached
OldByte == 9
\* "\0": the shortest name a caller can pass
EmptyName == <<0>>

Min(a, b) == IF a < b THEN a ELSE b
U64(x) == x % UINT64_MOD

\* 2^32 on the same reduced scale: a 64-bit word is a high and a low half of
\* this size.
UINT32_MOD == 16

\* (uint64_t) of an int32 result: the sign bit of the low half is extended.
S32(x) == IF x >= UINT32_MOD \div 2 THEN U64(x - UINT32_MOD) ELSE x

\* my_atomic_add32_explicit((int64*) &reserved_eof, length): the outcomes a
\* build can produce, as [start, reserved_eof]. Where the macro expands to a
\* type-generic fetch-and-add it works on the whole 64-bit word; where it is
\* the 32-bit operation its name says, it adds to the low half only, without
\* a carry into the high half, and returns the old low half as an int32.
my_atomic_add32_explicit(reserved_eof, length) ==
  { [start |-> reserved_eof, reserved_eof |-> U64(reserved_eof + length)],
    [start |-> S32(reserved_eof % UINT32_MOD),
     reserved_eof |-> (reserved_eof \div UINT32_MOD) * UINT32_MOD
                        + ((reserved_eof + length) % UINT32_MOD)] }

\* The payload of a call: byte i of writer w is 10*w + i, distinct over all
\* calls in flight; the first byte may be a NUL byte instead.
Payload(w, len, nul) ==
  [i \in 1..len |-> IF i = 1 /\ nul THEN 0 ELSE 10 * w + i]

VARIABLES
  hdr,      \* persistent: the slot's PMEM_APPEND_CACHE_HEADER
  body,     \* persistent: the bytes behind the header (file name, ring)
  file,     \* the backing file's contents
  cache,    \* the PMEM_APPEND_CACHE descriptor of the running process
  phase,    \* "open": directory open, nothing attached; "attach_stored",
            \* "attach_claiming": inside pmem_append_cache_attach; "attached";
            \* "stopping": detach has set stop_flusher; "down": no process;
            \* "recovery": pmem_append_cache_flush is draining the slot;
            \* "failed": pmem_append_cache_init returned -1;
            \* "attached_twice": a second descriptor holds the slot too;
            \* "create": the process is in pmem_append_cache_create;
            \* "init": the process is in pmem_append_cache_init;
            \* "pass_through": a handle on a dummy directory is in use
  wr,       \* per writer thread: position in cache_write and its locals
  fl,       \* the thread running flush_cache: position and locals
  ret,      \* history: <<call, value, cause>> of the lifecycle call that
            \* returned last
  crashes,  \* crashes so far
  base,     \* history: the backing file when the slot was attached
  expected, \* history: the payloads of the calls, in reservation order
  crash_hdr,\* history: the persisted header when the process went down
            \* last
  dir       \* the directory file: its durable header (magic, n_caches,
            \* start_offsets), its length, and the position of the
            \* directory-level call in progress

vars == <<hdr, body, file, cache, phase, wr, fl, ret, crashes, base,
          expected, crash_hdr, dir>>

(* --------------------------- pure helpers ----------------------------- *)

NoCache == [buffer |-> 0, buffer_size |-> 0, stop_flusher |-> 0,
            flushed_eof |-> 0, cached_eof |-> 0, reserved_eof |-> 0]
FreeHeader == [file_name_length |-> 0, flushed_eof |-> 0, cached_eof |-> 0]

\* directory_header_size(): the directory header with n_caches offsets
directory_header_size(n_caches) == DIR_HEADER_SIZE + OFFSET_SIZE * n_caches

\* create_directory(): the slot size, "& ~7" rounding it down to 8 bytes
cache_size(size, n_caches) ==
  OFFSET_SIZE *
  (((size - directory_header_size(n_caches)) \div n_caches) \div OFFSET_SIZE)

\* create_directory(): the argument checks that make it return -1
create_rejects(size, n_caches) ==
  \/ size < directory_header_size(n_caches)
  \/ n_caches = 0
  \/ cache_size(size, n_caches) < CACHE_HEADER_SIZE

\* create_directory(): start_offsets[i] as the loop computes it
start_offset(size, n_caches, i) ==
  directory_header_size(n_caches) + i * cache_size(size, n_caches)

\* pmem_append_cache_open(): the validation of a mapped directory file
open_rejects(d) ==
  \/ d.mapped_length < DIR_HEADER_SIZE
  \/ d.magic # PMEM_APPEND_CACHE_MAGIC
  \/ d.n_caches = 0
  \/ d.n_caches > (d.mapped_length - DIR_HEADER_SIZE) \div OFFSET_SIZE

region_check_unaligned(d, n, cache_start, cache_end) ==
  \/ cache_start < directory_header_size(d.n_caches)
  \/ cache_start > cache_end
  \/ U64(cache_end - cache_start) < CACHE_HEADER_SIZE
  \/ cache_end > d.mapped_length

\* open_cache(): the checks of the slot region against the directory
region_check(d, n, cache_start, cache_end) ==
  \/ cache_start < directory_header_size(d.n_caches)
  \/ cache_start > cache_end
  \/ cache_start % 8 # 0
  \/ U64(cache_end - cache_start) < CACHE_HEADER_SIZE
  \/ cache_end > d.mapped_length

\* open_cache(): the checks of the slot header against the region
header_check(h, cache_start, cache_end, buffer_size) ==
  \/ h.file_name_length >= U64(cache_end - cache_start - CACHE_HEADER_SIZE)
  \/ h.cached_eof < h.flushed_eof
  \/ U64(h.cached_eof - h.flushed_eof) > buffer_size

\* open_cache(): slot n of directory d, whose persisted header is h.  The
\* descriptor addresses the bytes behind the header from 0.
open_cache_at(d, n, h) ==
  IF n >= d.n_caches
  THEN [res |-> -1, cache |-> NoCache]
  ELSE
  LET cache_start == d.start_offsets[n]
      cache_end == IF n = d.n_caches - 1 THEN d.mapped_length
                   ELSE d.start_offsets[n + 1]
      buffer_size == U64(cache_end - cache_start - CACHE_HEADER_SIZE
                         - h.file_name_length)
      c == [buffer |-> h.file_name_length,
            buffer_size |-> buffer_size,
            stop_flusher |-> 0,
            flushed_eof |-> h.flushed_eof,
            cached_eof |-> h.cached_eof,
            reserved_eof |-> h.cached_eof]
  IN  IF region_check(d, n, cache_start, cache_end)
      THEN [res |-> -1, cache |-> NoCache]
      ELSE IF header_check(h, cache_start, cache_end, buffer_size)
      THEN [res |-> -1, cache |-> c]
      ELSE [res |-> 0, cache |-> c]

\* open_cache() on the one slot followed through its life
open_cache(h) == open_cache_at(dir, 0, h)

avail_space_nosize(flushed_eof, buffer_size, write_pos) ==
  U64(flushed_eof - write_pos)

\* cache_write(): free ring space seen at write_pos, as the uint64_t the
\* code computes; the wait loop spins while it is "<= 0".
avail_space(flushed_eof, buffer_size, write_pos) ==
  U64(flushed_eof + buffer_size - write_pos)

space_wait_over(avail) == ~(avail <= 0)

chunk_size_nowrap(avail, left, buffer_size, chunk_offset) == Min(avail, left)

\* cache_write(): the chunk size, clipped to what is left and to the wrap.
chunk_size(avail, left, buffer_size, chunk_offset) ==
  Min(Min(avail, left), buffer_size - chunk_offset)

order_wait_skipped(cached_eof, start) == TRUE

\* cache_write(): the wait for preceding concurrent writes is over.
order_wait_over(cached_eof, start) == ~(cached_eof < start)

commit_value_short(write_pos) == write_pos - 1

\* cache_write(): the value committed to cached_eof after a chunk.
commit_value(write_pos) == write_pos

write_size_noclip(cached_eof, flushed_eof, buffer_size) ==
  buffer_size - (flushed_eof % buffer_size)

\* flush_cache(): size of the next run, clipped at the wrap boundary.
write_size(cached_eof, flushed_eof, buffer_size) ==
  IF cached_eof \div buffer_size = flushed_eof \div buffer_size
  THEN cached_eof - flushed_eof
  ELSE buffer_size - (flushed_eof % buffer_size)

\* my_pwrite(): f with the bytes data written at offset off
pwrite(f, data, off) ==
  [i \in 1..(IF off + Len(data) > Len(f) THEN off + Len(data) ELSE Len(f)) |->
     IF i > off /\ i <= off + Len(data) THEN data[i - off]
     ELSE IF i <= Len(f) THEN f[i] ELSE 0]

\* the bytes of the ring at [pos, pos + n), read from the slot body
ring_read(b, buffer, pos, n) == [i \in 1..n |-> b[buffer + pos + i - 1]]

IdleWriter == [pc |-> "idle", start |-> 0, write_pos |-> 0, left |-> 0,
               length |-> 0, data |-> <<>>, avail |-> 0, arg |-> 0,
               offset |-> 0]
NoFlusher == [pc |-> "off", final |-> FALSE, flushed_eof |-> 0,
              write_size |-> 0, written |-> 0]
\* a directory file in its durable state: the arguments of the call that
\* made it, the mapped header, and the directory-level call in progress
Directory(size, n_caches, pc) ==
  [arg_size |-> size, arg_n |-> n_caches, pc |-> pc, crashed |-> FALSE,
   dummy |-> FALSE, mapped |-> FALSE,
   mapped_length |-> size, magic |-> 0, n_caches |-> 0,
   start_offsets |-> [i \in 0..(MaxCaches - 1) |-> 0],
   probe |-> <<>>]

\* the directory pmem_append_cache_create() leaves behind
created_directory(size, n_caches) ==
  [Directory(size, n_caches, "created") EXCEPT
     !.magic = PMEM_APPEND_CACHE_MAGIC,
     !.n_caches = n_caches,
     !.start_offsets = [i \in 0..(MaxCaches - 1) |->
                          IF i < n_caches
                          THEN start_offset(size, n_caches, i) ELSE 0]]

\* the directory of the one slot followed through its life: a single slot
\* of CACHE_HEADER_SIZE + BodySize bytes
SlotDirectory ==
  [created_directory(directory_header_size(1) + CACHE_HEADER_SIZE + BodySize,
                     1) EXCEPT !.pc = "ready", !.mapped = TRUE]

\* pmem_append_cache_close(): unmaps the file unless the descriptor says
\* it is a dummy
pmem_append_cache_close(d) ==
  [d EXCEPT !.mapped = IF d.dummy THEN d.mapped ELSE FALSE]

(* ------------------------------- Init --------------------------------- *)
\* A freshly created directory (zero-filled, slot free), opened, and an
\* empty backing file.
Init ==
  /\ hdr = FreeHeader
  /\ body = [i \in 0..(BodySize - 1) |-> 0]
  /\ file = <<>>
  /\ cache = NoCache
  /\ phase = "open"
  /\ wr = [w \in Writers |-> IdleWriter]
  /\ fl = NoFlusher
  /\ ret = <<"init", 0, "">>
  /\ crashes = 0
  /\ base = <<>>
  /\ expected = <<>>
  /\ crash_hdr = FreeHeader
  /\ dir = SlotDirectory

(* --------------------------- lifecycle -------------------------------- *)

attach_refused_free_only(h, file_name_length) ==
  \/ open_cache(h).res # 0
  \/ file_name_length >= open_cache(h).cache.buffer_size

attach_refused_room_unchecked(h, file_name_length) ==
  \/ open_cache(h).res # 0
  \/ h.file_name_length # 0

\* pmem_append_cache_attach(): the conditions under which it returns -1
\* before it has stored anything; file_name_length is strlen() + 1 of the
\* name passed in
attach_refused(h, file_name_length) ==
  \/ open_cache(h).res # 0
  \/ h.file_name_length # 0
  \/ file_name_length >= open_cache(h).cache.buffer_size

pass_through_never(d) == FALSE

\* pmem_append_cache_attach(): no directory, or the dummy one
pass_through(d) == d.dummy

\* pmem_append_cache_attach(): on a dummy directory the handle is set up to
\* pass everything through; on a real one it runs up to the stores of the
\* offsets and of the file name.  The stores are in the CPU cache only:
\* hdr and body, the durable image, change when a store is written back.
pmem_append_cache_attach ==
  /\ phase = "open"
  /\ \A w \in Writers : wr[w].pc = "idle"
  /\ LET st_size == Len(file)
     IN  IF pass_through(dir)
         THEN /\ phase' = "pass_through"
              /\ ret' = <<"attach", 0, "">>
              /\ base' = file
              /\ expected' = <<>>
              /\ UNCHANGED <<cache, crash_hdr>>
         ELSE
         IF attach_refused(hdr, Len(FileName))
         THEN /\ ret' = <<"attach", -1, "">>
              /\ UNCHANGED <<cache, phase, base, expected, crash_hdr>>
         ELSE /\ cache' = [open_cache(hdr).cache EXCEPT
                             !.flushed_eof = st_size,
                             !.cached_eof = st_size,
                             !.reserved_eof = st_size]
              /\ phase' = "attach_stored"
              /\ base' = file
              /\ expected' = <<>>
              /\ crash_hdr' = FreeHeader
              /\ UNCHANGED ret
  /\ UNCHANGED <<hdr, body, file, wr, fl, crashes, dir>>

\* the durable image once every store of the offsets and the name is in it
attach_stores_durable ==
  /\ hdr' = [hdr EXCEPT !.flushed_eof = cache.flushed_eof,
                        !.cached_eof = cache.cached_eof]
  /\ body' = [i \in 0..(BodySize - 1) |->
                IF i < Len(FileName) THEN FileName[i + 1] ELSE body[i]]

\* The CPU writes one pending store back before any pmem_persist(): the
\* offsets and the name bytes before the first, file_name_length before the
\* second, each on its own and in any order.
attach_writeback ==
  /\ \/ /\ phase = "attach_stored"
        /\ \/ /\ hdr' = [hdr EXCEPT !.flushed_eof = cache.flushed_eof]
              /\ UNCHANGED body
           \/ /\ hdr' = [hdr EXCEPT !.cached_eof = cache.cached_eof]
              /\ UNCHANGED body
           \/ /\ \E i \in 0..(Len(FileName) - 1) :
                   body' = [body EXCEPT ![i] = FileName[i + 1]]
              /\ UNCHANGED hdr
     \/ /\ phase = "attach_claiming"
        /\ hdr' = [hdr EXCEPT !.file_name_length = Len(FileName)]
        /\ UNCHANGED body
  /\ <<hdr, body>>' # <<hdr, body>>
  /\ UNCHANGED <<file, cache, phase, wr, fl, ret, crashes, base, expected,
                 crash_hdr, dir>>

attach_persist_skipped ==
  /\ phase = "attach_stored"
  /\ phase' = "attach_claiming"
  /\ UNCHANGED <<hdr, body, file, cache, wr, fl, ret, crashes, base,
                 expected, crash_hdr, dir>>

\* pmem_persist() of the header and the name, then the store of
\* file_name_length, which is in the CPU cache only.
attach_persist ==
  /\ phase = "attach_stored"
  /\ attach_stores_durable
  /\ phase' = "attach_claiming"
  /\ UNCHANGED <<file, cache, wr, fl, ret, crashes, base, expected,
                 crash_hdr, dir>>

attach_claim_persist_size_kept ==
  /\ phase = "attach_claiming"
  /\ hdr' = [hdr EXCEPT !.file_name_length = Len(FileName)]
  /\ cache' = [cache EXCEPT !.buffer = @ + Len(FileName)]
  /\ phase' = "attached"
  /\ fl' = [NoFlusher EXCEPT !.pc = "check_stop"]
  /\ ret' = <<"attach", 0, "">>
  /\ UNCHANGED <<body, file, wr, crashes, base, expected, crash_hdr, dir>>

\* pmem_persist() of file_name_length; the descriptor's buffer is moved
\* behind the name and the flusher thread is started.
attach_claim_persist ==
  /\ phase = "attach_claiming"
  /\ hdr' = [hdr EXCEPT !.file_name_length = Len(FileName)]
  /\ cache' = [cache EXCEPT !.buffer = @ + Len(FileName),
                            !.buffer_size = @ - Len(FileName)]
  /\ phase' = "attached"
  /\ fl' = [NoFlusher EXCEPT !.pc = "check_stop"]
  /\ ret' = <<"attach", 0, "">>
  /\ UNCHANGED <<body, file, wr, crashes, base, expected, crash_hdr, dir>>

\* pmem_persist() of file_name_length, then pthread_create() fails: attach
\* returns -1 and the slot stays claimed.
attach_no_thread ==
  /\ phase = "attach_claiming"
  /\ hdr' = [hdr EXCEPT !.file_name_length = Len(FileName)]
  /\ cache' = NoCache
  /\ phase' = "open"
  /\ ret' = <<"attach", -1, "pthread_create">>
  /\ UNCHANGED <<body, file, wr, fl, crashes, base, expected, crash_hdr,
                 dir>>

\* pmem_append_cache_attach() through a second descriptor while the slot is
\* attached through the first: the same checks on the same persisted header.
attach_claimed ==
  /\ phase \in {"attached", "stopping"}
  /\ \E name \in {FileName, EmptyName} :
       IF attach_refused(hdr, Len(name))
       THEN /\ ret' = <<"attach", -1, "">>
            /\ UNCHANGED <<hdr, body, phase>>
       ELSE /\ hdr' = [file_name_length |-> Len(name),
                       flushed_eof |-> Len(file), cached_eof |-> Len(file)]
            /\ body' = [i \in 0..(BodySize - 1) |->
                          IF i < Len(name) THEN name[i + 1] ELSE body[i]]
            /\ phase' = "attached_twice"
            /\ ret' = <<"attach", 0, "">>
  /\ UNCHANGED <<file, cache, wr, fl, crashes, base, expected, crash_hdr,
                 dir>>

\* pmem_append_cache_detach(), first half: raise stop_flusher.  The caller
\* keeps the cache from being accessed for the duration of the call.
detach_stop ==
  /\ phase = "attached"
  /\ \A w \in Writers : wr[w].pc = "idle"
  /\ cache' = [cache EXCEPT !.stop_flusher = 1]
  /\ phase' = "stopping"
  /\ UNCHANGED <<hdr, body, file, wr, fl, ret, crashes, base, expected,
                 crash_hdr>>
  /\ UNCHANGED dir

\* pmem_append_cache_detach() called while a cache_write call is in progress
\* on the handle, which its caller is told not to do.
detach_stop_busy ==
  /\ phase = "attached"
  /\ \E w \in Writers : wr[w].pc # "idle"
  /\ cache' = [cache EXCEPT !.stop_flusher = 1]
  /\ phase' = "stopping"
  /\ UNCHANGED <<hdr, body, file, wr, fl, ret, crashes, base, expected,
                 crash_hdr, dir>>

detach_drained_always(c) == TRUE

\* pmem_append_cache_detach(): the test that lets it release the slot
detach_drained(c) == c.flushed_eof = c.cached_eof

\* pmem_append_cache_detach(), second half: pthread_join() has returned.
detach_join ==
  /\ phase = "stopping"
  /\ fl.pc = "exited"
  /\ IF detach_drained(cache)
     THEN /\ hdr' = [hdr EXCEPT !.file_name_length = 0]
          /\ ret' = <<"detach", 0, "">>
     ELSE /\ ret' = <<"detach", -1, "">>
          /\ UNCHANGED hdr
  /\ phase' = "open"
  /\ fl' = NoFlusher
  /\ cache' = NoCache
  /\ UNCHANGED <<body, file, wr, crashes, base, expected, crash_hdr>>
  /\ UNCHANGED dir

(* --------------------------- cache_write ------------------------------ *)

\* Reserve space for this write: fetch-and-add on reserved_eof.
cw_reserve(w) ==
  /\ phase = "attached"
  /\ wr[w].pc = "idle"
  /\ \E length \in 1..MaxLen, nul \in BOOLEAN :
       /\ cache.reserved_eof + length <= MaxEof \/ Len(base) > MaxEof
       /\ \E r \in my_atomic_add32_explicit(cache.reserved_eof, length) :
            /\ wr' = [wr EXCEPT ![w] =
                        [pc |-> "wait_space", start |-> r.start,
                         write_pos |-> r.start, left |-> length,
                         length |-> length, data |-> Payload(w, length, nul),
                         avail |-> 0, arg |-> 0, offset |-> 0]]
            /\ cache' = [cache EXCEPT !.reserved_eof = r.reserved_eof]
       /\ expected' = expected \o Payload(w, length, nul)
  /\ UNCHANGED <<hdr, body, file, phase, fl, ret, crashes, base, crash_hdr>>
  /\ UNCHANGED dir

\* Wait for flusher thread to release some space, then size the chunk.
cw_wait_space(w) ==
  /\ phase \in {"attached", "stopping"}
  /\ wr[w].pc = "wait_space"
  /\ LET chunk_offset == wr[w].write_pos % cache.buffer_size
         avail == avail_space(cache.flushed_eof, cache.buffer_size,
                              wr[w].write_pos)
     IN  /\ space_wait_over(avail)
         /\ wr' = [wr EXCEPT ![w].pc = "copy",
                             ![w].avail = chunk_size(avail, wr[w].left,
                                                     cache.buffer_size,
                                                     chunk_offset)]
  /\ UNCHANGED <<hdr, body, file, cache, phase, fl, ret, crashes, base,
                 expected, crash_hdr>>
  /\ UNCHANGED dir

\* pmem_memcpy_persist() of the chunk; left, data and write_pos move on.
cw_copy(w) ==
  /\ phase \in {"attached", "stopping"}
  /\ wr[w].pc = "copy"
  /\ LET chunk_offset == wr[w].write_pos % cache.buffer_size
         done == wr[w].length - wr[w].left
         lo == cache.buffer + chunk_offset
     IN  body' = [i \in 0..(BodySize - 1) |->
                    IF i >= lo /\ i < lo + wr[w].avail
                    THEN wr[w].data[done + 1 + (i - lo)]
                    ELSE body[i]]
  /\ wr' = [wr EXCEPT ![w].pc = "wait_order",
                      ![w].left = @ - wr[w].avail,
                      ![w].write_pos = @ + wr[w].avail]
  /\ UNCHANGED <<hdr, file, cache, phase, fl, ret, crashes, base, expected,
                 crash_hdr>>
  /\ UNCHANGED dir

\* Wait for preceding concurrent writes completion.
cw_wait_order(w) ==
  /\ phase \in {"attached", "stopping"}
  /\ wr[w].pc = "wait_order"
  /\ order_wait_over(cache.cached_eof, wr[w].start)
  /\ wr' = [wr EXCEPT ![w].pc = "commit_hdr"]
  /\ UNCHANGED <<hdr, body, file, cache, phase, fl, ret, crashes, base,
                 expected, crash_hdr>>
  /\ UNCHANGED dir

cw_commit_hdr_descriptor_first(w) ==
  /\ phase \in {"attached", "stopping"}
  /\ wr[w].pc = "commit_hdr"
  /\ cache' = [cache EXCEPT !.cached_eof = commit_value(wr[w].write_pos)]
  /\ wr' = [wr EXCEPT ![w].pc = "commit_rt"]
  /\ UNCHANGED <<hdr, body, file, phase, fl, ret, crashes, base, expected,
                 crash_hdr, dir>>

\* Commit this write: store and persist the header's cached_eof.
cw_commit_hdr(w) ==
  /\ phase \in {"attached", "stopping"}
  /\ wr[w].pc = "commit_hdr"
  /\ hdr' = [hdr EXCEPT !.cached_eof = commit_value(wr[w].write_pos)]
  /\ wr' = [wr EXCEPT ![w].pc = "commit_rt"]
  /\ UNCHANGED <<body, file, cache, phase, fl, ret, crashes, base, expected,
                 crash_hdr>>
  /\ UNCHANGED dir

\* Mirror the commit into the descriptor; loop while (left), else return.
cw_commit_rt(w) ==
  /\ phase \in {"attached", "stopping"}
  /\ wr[w].pc = "commit_rt"
  /\ cache' = [cache EXCEPT !.cached_eof = commit_value(wr[w].write_pos)]
  /\ wr' = [wr EXCEPT ![w] = IF wr[w].left # 0
                             THEN [@ EXCEPT !.pc = "wait_space", !.avail = 0]
                             ELSE IdleWriter]
  /\ UNCHANGED <<hdr, body, file, phase, fl, ret, crashes, base, expected,
                 crash_hdr>>
  /\ UNCHANGED dir

\* cache_flush() is entered by thread w: an offset of 0 stands for the
\* cached_eof loaded now.
cache_flush_load(w) ==
  /\ phase = "attached"
  /\ wr[w].pc = "idle"
  /\ \E offset \in 0..MaxEof :
       wr' = [wr EXCEPT ![w] =
                [IdleWriter EXCEPT !.pc = "flush_wait", !.arg = offset,
                                   !.offset = IF offset = 0
                                              THEN cache.cached_eof
                                              ELSE offset]]
  /\ UNCHANGED <<hdr, body, file, cache, phase, fl, ret, crashes, base,
                 expected, crash_hdr, dir>>

\* cache_flush(): the wait loop is left
flush_wait_over(flushed_eof, offset) == ~(flushed_eof < offset)

\* cache_flush() returns
cache_flush_return(w) ==
  /\ phase \in {"attached", "stopping"}
  /\ wr[w].pc = "flush_wait"
  /\ flush_wait_over(cache.flushed_eof, wr[w].offset)
  /\ wr' = [wr EXCEPT ![w] = IdleWriter]
  /\ UNCHANGED <<hdr, body, file, cache, phase, fl, ret, crashes, base,
                 expected, crash_hdr, dir>>

(* --------------------------- pass-through ----------------------------- *)

\* no_cache_write(): mysql_file_write() of the whole payload to the file
no_cache_write(w) ==
  /\ phase = "pass_through"
  /\ \E length \in 1..MaxLen, nul \in BOOLEAN :
       /\ Len(file) + length <= MaxEof
       /\ file' = file \o Payload(w, length, nul)
       /\ expected' = expected \o Payload(w, length, nul)
  /\ ret' = <<"write", 0, "">>
  /\ UNCHANGED <<hdr, body, cache, phase, wr, fl, crashes, base, crash_hdr,
                 dir>>

\* no_cache_flush(): nothing to wait for
no_cache_flush ==
  /\ phase = "pass_through"
  /\ ret' = <<"flush", 0, "">>
  /\ UNCHANGED <<hdr, body, file, cache, phase, wr, fl, crashes, base,
                 expected, crash_hdr, dir>>

\* no_cache_sync(): mysql_file_sync() of the file
no_cache_sync ==
  /\ phase = "pass_through"
  /\ ret' = <<"sync", 0, "">>
  /\ UNCHANGED <<hdr, body, file, cache, phase, wr, fl, crashes, base,
                 expected, crash_hdr, dir>>

\* pmem_append_cache_detach() on a pass-through handle returns 0 at once.
detach_no_cache ==
  /\ phase = "pass_through"
  /\ phase' = "open"
  /\ ret' = <<"detach", 0, "">>
  /\ UNCHANGED <<hdr, body, file, cache, wr, fl, crashes, base, expected,
                 crash_hdr, dir>>

(* ----------------------- flusher_thread, flush_cache ------------------ *)

\* flusher_thread(): test stop_flusher and enter flush_cache(), which
\* starts from the descriptor's flushed_eof.
flusher_check_stop ==
  /\ phase \in {"attached", "stopping"}
  /\ fl.pc = "check_stop"
  /\ fl' = [NoFlusher EXCEPT !.pc = "fc_load",
                             !.final = (cache.stop_flusher # 0),
                             !.flushed_eof = cache.flushed_eof]
  /\ UNCHANGED <<hdr, body, file, cache, phase, wr, ret, crashes, base,
                 expected, crash_hdr>>
  /\ UNCHANGED dir

\* flush_cache(): the loop test finds cached data and sizes the next run.
fc_load_more ==
  /\ phase \in {"attached", "stopping", "recovery"}
  /\ fl.pc = "fc_load"
  /\ fl.flushed_eof < cache.cached_eof
  /\ fl' = [fl EXCEPT !.pc = "fc_pwrite",
                      !.write_size = write_size(cache.cached_eof,
                                                fl.flushed_eof,
                                                cache.buffer_size)]
  /\ UNCHANGED <<hdr, body, file, cache, phase, wr, ret, crashes, base,
                 expected, crash_hdr>>
  /\ UNCHANGED dir

\* flush_cache() returns 0 to flusher_thread(): sleep and loop, or exit
\* after the final pass.
fc_return_thread ==
  /\ phase \in {"attached", "stopping"}
  /\ fl.pc = "fc_load"
  /\ ~(fl.flushed_eof < cache.cached_eof)
  /\ fl' = [NoFlusher EXCEPT !.pc = IF fl.final THEN "exited"
                                    ELSE "check_stop"]
  /\ UNCHANGED <<hdr, body, file, cache, phase, wr, ret, crashes, base,
                 expected, crash_hdr>>
  /\ UNCHANGED dir

\* flush_cache() returns 0 to pmem_append_cache_flush(), which closes the
\* file, finds no further slot and returns 0.
fc_return_recovery ==
  /\ phase = "recovery"
  /\ fl.pc = "fc_load"
  /\ ~(fl.flushed_eof < cache.cached_eof)
  /\ fl' = NoFlusher
  /\ cache' = NoCache
  /\ phase' = "open"
  /\ ret' = <<"flush_all", 0, "drained">>
  /\ UNCHANGED <<hdr, body, file, wr, crashes, base, expected, crash_hdr>>
  /\ UNCHANGED dir

\* my_pwrite() of the run at offset flushed_eof (it may write less than
\* asked), then my_sync(); both succeed.
fc_pwrite_sync ==
  /\ phase \in {"attached", "stopping", "recovery"}
  /\ fl.pc = "fc_pwrite"
  /\ \E written \in 1..fl.write_size :
       /\ file' = pwrite(file,
                         ring_read(body, cache.buffer,
                                   fl.flushed_eof % cache.buffer_size,
                                   written),
                         fl.flushed_eof)
       /\ fl' = [fl EXCEPT !.pc = "fc_store_hdr", !.write_size = 0,
                           !.written = written]
  /\ UNCHANGED <<hdr, body, cache, phase, wr, ret, crashes, base, expected,
                 crash_hdr>>
  /\ UNCHANGED dir

\* flushed_eof+= written; store and persist the header's flushed_eof.
fc_store_hdr ==
  /\ phase \in {"attached", "stopping", "recovery"}
  /\ fl.pc = "fc_store_hdr"
  /\ hdr' = [hdr EXCEPT !.flushed_eof = fl.flushed_eof + fl.written]
  /\ fl' = [fl EXCEPT !.pc = "fc_store_rt",
                      !.flushed_eof = @ + fl.written]
  /\ UNCHANGED <<body, file, cache, phase, wr, ret, crashes, base, expected,
                 crash_hdr>>
  /\ UNCHANGED dir

\* Mirror flushed_eof into the descriptor and test the loop again.
fc_store_rt ==
  /\ phase \in {"attached", "stopping", "recovery"}
  /\ fl.pc = "fc_store_rt"
  /\ cache' = [cache EXCEPT !.flushed_eof = fl.flushed_eof]
  /\ fl' = [fl EXCEPT !.pc = "fc_load", !.written = 0]
  /\ UNCHANGED <<hdr, body, file, phase, wr, ret, crashes, base, expected,
                 crash_hdr>>
  /\ UNCHANGED dir

(* ------------------------ crash and recovery -------------------------- *)

\* What a dead process leaves: persistent memory and the backing file.
ProcessDies(call) ==
  /\ phase' = "down"
  /\ cache' = NoCache
  /\ wr' = [w \in Writers |-> IdleWriter]
  /\ fl' = NoFlusher
  /\ crash_hdr' = hdr
  /\ crashes' = crashes + 1
  /\ ret' = <<call, 0, phase>>
  /\ UNCHANGED <<hdr, body, base, expected, dir>>

\* The process is killed, or power is lost, at any point.
Crash ==
  /\ phase \in {"attach_stored", "attach_claiming", "attached", "stopping",
                "recovery"}
  /\ crashes < MaxCrashes
  /\ ProcessDies("crash")
  /\ UNCHANGED file

\* my_pwrite() fails (nothing written) or my_sync() fails (after a write):
\* flush_cache() returns -1.  flusher_thread() calls abort();
\* pmem_append_cache_flush() closes the file and returns -1.
fc_io_error ==
  /\ fl.pc = "fc_pwrite"
  /\ \/ UNCHANGED file
     \/ \E written \in 1..fl.write_size :
          file' = pwrite(file,
                         ring_read(body, cache.buffer,
                                   fl.flushed_eof % cache.buffer_size,
                                   written),
                         fl.flushed_eof)
  /\ IF phase = "recovery"
     THEN /\ phase' = "failed"
          /\ ret' = <<"flush_all", -1, "io">>
          /\ fl' = NoFlusher
          /\ cache' = NoCache
          /\ UNCHANGED <<hdr, body, wr, crashes, base, expected, crash_hdr,
                         dir>>
     ELSE /\ crashes < MaxCrashes
          /\ ProcessDies("abort")

\* The process closes the directory and ends with nothing attached.
process_exit ==
  /\ phase = "open"
  /\ phase' = "down"
  /\ crash_hdr' = hdr
  /\ ret' = <<"exit", 0, "">>
  /\ UNCHANGED <<hdr, body, file, cache, wr, fl, crashes, base, expected,
                 dir>>

\* While no process runs, the backing file is cut short by someone else.
file_truncate ==
  /\ phase = "down"
  /\ \E n \in 0..(Len(file) - 1) : file' = SubSeq(file, 1, n)
  /\ UNCHANGED <<hdr, body, cache, phase, wr, fl, ret, crashes, base,
                 expected, crash_hdr, dir>>

file_truncated_never(h, st_size) == FALSE

\* pmem_append_cache_flush(): the file is shorter than what the header says
\* was flushed
file_truncated(h, st_size) == h.flushed_eof > st_size

\* Restart: pmem_append_cache_init() opens the directory and runs
\* pmem_append_cache_flush() on the slot, up to the call of flush_cache().
pmem_append_cache_flush ==
  /\ phase = "down"
  /\ LET oc == open_cache(hdr)
     IN  IF oc.res # 0
         THEN /\ phase' = "failed"
              /\ ret' = <<"flush_all", -1, "open_cache">>
              /\ UNCHANGED <<hdr, cache, fl>>
         ELSE IF hdr.file_name_length = 0
         THEN /\ phase' = "open"
              /\ ret' = <<"flush_all", 0, "free">>
              /\ UNCHANGED <<hdr, cache, fl>>
         ELSE IF hdr.flushed_eof = hdr.cached_eof
         THEN /\ hdr' = [hdr EXCEPT !.file_name_length = 0]
              /\ phase' = "open"
              /\ ret' = <<"flush_all", 0, "clean">>
              /\ UNCHANGED <<cache, fl>>
         ELSE IF body[hdr.file_name_length] # 0
         THEN /\ phase' = "failed"
              /\ ret' = <<"flush_all", -1, "file_name">>
              /\ UNCHANGED <<hdr, cache, fl>>
         ELSE IF file_truncated(hdr, Len(file))
         THEN /\ phase' = "failed"
              /\ ret' = <<"flush_all", -1, "st_size">>
              /\ UNCHANGED <<hdr, cache, fl>>
         ELSE /\ phase' = "recovery"
              /\ cache' = oc.cache
              /\ fl' = [NoFlusher EXCEPT !.pc = "fc_load",
                                         !.flushed_eof = oc.cache.flushed_eof]
              /\ UNCHANGED <<hdr, ret>>
  /\ UNCHANGED <<body, file, wr, crashes, base, expected, crash_hdr>>
  /\ UNCHANGED dir

(* --------------------------- specifications --------------------------- *)

WriterStep(w) ==
  \/ cw_reserve(w)
  \/ cw_wait_space(w)
  \/ cw_copy(w)
  \/ cw_wait_order(w)
  \/ cw_commit_hdr(w)
  \/ cw_commit_rt(w)

Next ==
  \/ pmem_append_cache_attach
  \/ attach_writeback
  \/ attach_persist
  \/ attach_claim_persist
  \/ attach_no_thread
  \/ detach_stop
  \/ detach_join
  \/ \E w \in Writers : WriterStep(w)
  \/ flusher_check_stop
  \/ fc_load_more
  \/ fc_return_thread
  \/ fc_return_recovery
  \/ fc_pwrite_sync
  \/ fc_store_hdr
  \/ fc_store_rt
  \/ Crash
  \/ fc_io_error
  \/ pmem_append_cache_flush

Spec == Init /\ [][Next]_vars

\* The writers and the flusher thread as long as the process lives and the
\* backing file accepts every write and sync.
FlusherStep ==
  \/ flusher_check_stop
  \/ fc_load_more
  \/ fc_return_thread
  \/ fc_pwrite_sync
  \/ fc_store_hdr
  \/ fc_store_rt

\* cache_write() once entered: the steps of a call up to its return
WriterProgress(w) ==
  \/ cw_wait_space(w)
  \/ cw_copy(w)
  \/ cw_wait_order(w)
  \/ cw_commit_hdr(w)
  \/ cw_commit_rt(w)

LiveNext ==
  \/ pmem_append_cache_attach
  \/ attach_writeback
  \/ attach_persist
  \/ attach_claim_persist
  \/ attach_no_thread
  \/ detach_stop
  \/ detach_join
  \/ \E w \in Writers : cw_reserve(w)
  \/ \E w \in Writers : WriterProgress(w)
  \/ FlusherStep

\* Every thread that can run is scheduled: the flusher thread and each
\* writer inside cache_write() keep taking steps.
LiveSpec ==
  /\ Init
  /\ [][LiveNext]_vars
  /\ WF_vars(FlusherStep)
  /\ \A w \in Writers : WF_vars(WriterProgress(w))

\* The same with application threads that also call cache_flush().
FlushNext ==
  \/ LiveNext
  \/ \E w \in Writers : cache_flush_load(w)
  \/ \E w \in Writers : cache_flush_return(w)

\* The flusher thread is scheduled, and so is a thread inside cache_flush().
FlushSpec ==
  /\ Init
  /\ [][FlushNext]_vars
  /\ WF_vars(FlusherStep)
  /\ \A w \in Writers : WF_vars(cache_flush_return(w))

(* ------------------------- the directory file ------------------------- *)

\* create_directory() up to the stores into the mapped file: the argument
\* checks, pmem_map_file() of a new zero-filled file (which may fail), the
\* offsets and n_caches stored in the CPU cache.
create_directory ==
  /\ dir.pc = "start"
  /\ \/ dir' = [dir EXCEPT !.pc = "rejected"]
     \/ /\ ~create_rejects(dir.arg_size, dir.arg_n)
        /\ dir' = [Directory(dir.arg_size, dir.arg_n, "storing") EXCEPT
                     !.mapped = TRUE]
  /\ UNCHANGED <<hdr, body, file, cache, phase, wr, fl, ret, crashes, base,
                 expected, crash_hdr>>

\* The CPU writes one pending store back before any pmem_persist(): an
\* offset or n_caches before the first, the magic before the second.
cd_writeback ==
  /\ \/ /\ dir.pc = "storing"
        /\ \/ \E i \in 0..(dir.arg_n - 1) :
                dir' = [dir EXCEPT !.start_offsets[i] =
                          start_offset(dir.arg_size, dir.arg_n, i)]
           \/ dir' = [dir EXCEPT !.n_caches = dir.arg_n]
     \/ /\ dir.pc = "magic_stored"
        /\ dir' = [dir EXCEPT !.magic = PMEM_APPEND_CACHE_MAGIC]
  /\ dir' # dir
  /\ UNCHANGED <<hdr, body, file, cache, phase, wr, fl, ret, crashes, base,
                 expected, crash_hdr>>

cd_persist_header_skipped ==
  /\ dir.pc = "storing"
  /\ dir' = [dir EXCEPT !.pc = "magic_stored"]
  /\ UNCHANGED <<hdr, body, file, cache, phase, wr, fl, ret, crashes, base,
                 expected, crash_hdr>>

\* pmem_persist() of the directory header, then the store of the magic,
\* which is in the CPU cache only.
cd_persist_header ==
  /\ dir.pc = "storing"
  /\ dir' = [created_directory(dir.arg_size, dir.arg_n) EXCEPT
               !.magic = dir.magic, !.pc = "magic_stored", !.mapped = TRUE]
  /\ UNCHANGED <<hdr, body, file, cache, phase, wr, fl, ret, crashes, base,
                 expected, crash_hdr>>

\* pmem_persist() of the magic; create_directory() returns 0 and
\* pmem_append_cache_create() closes the directory.
cd_persist_magic ==
  /\ dir.pc = "magic_stored"
  /\ dir' = pmem_append_cache_close(
              [dir EXCEPT !.magic = PMEM_APPEND_CACHE_MAGIC,
                          !.pc = "created"])
  /\ UNCHANGED <<hdr, body, file, cache, phase, wr, fl, ret, crashes, base,
                 expected, crash_hdr>>

\* The process dies inside create_directory(); the file keeps what is
\* durable.
cd_crash ==
  /\ dir.pc \in {"storing", "magic_stored"}
  /\ dir' = [dir EXCEPT !.pc = "crashed", !.crashed = TRUE,
                        !.mapped = FALSE]
  /\ UNCHANGED <<hdr, body, file, cache, phase, wr, fl, ret, crashes, base,
                 expected, crash_hdr>>

\* pmem_append_cache_open() of an existing file: pmem_map_file() may fail;
\* a file that fails the validation is closed again.  The caller's
\* descriptor is written only after the validation, so the dummy flag that
\* pmem_append_cache_close() reads is whatever the descriptor held before.
pmem_append_cache_open ==
  /\ dir.pc \in {"created", "crashed", "closed"}
  /\ \/ dir' = [dir EXCEPT !.pc = "open_failed"]
     \/ \E dummy \in BOOLEAN :
          dir' = IF open_rejects(dir)
                 THEN pmem_append_cache_close(
                        [dir EXCEPT !.pc = "open_failed", !.mapped = TRUE,
                                    !.dummy = dummy])
                 ELSE [dir EXCEPT !.pc = "opened", !.mapped = TRUE,
                                  !.dummy = FALSE]
  /\ UNCHANGED <<hdr, body, file, cache, phase, wr, fl, ret, crashes, base,
                 expected, crash_hdr>>

\* pmem_append_cache_init() with a null path: a dummy directory.
init_no_path ==
  /\ dir.pc = "no_path"
  /\ dir' = [dir EXCEPT !.pc = "dummy", !.dummy = TRUE]
  /\ UNCHANGED <<hdr, body, file, cache, phase, wr, fl, ret, crashes, base,
                 expected, crash_hdr>>

\* pmem_append_cache_init() after a successful open: the directory must
\* hold at least the requested number of slots, else it is closed.
init_n_caches ==
  /\ dir.pc = "opened"
  /\ dir' = IF dir.n_caches >= dir.arg_n
            THEN [dir EXCEPT !.pc = "flushing"]
            ELSE pmem_append_cache_close([dir EXCEPT !.pc = "init_failed"])
  /\ UNCHANGED <<hdr, body, file, cache, phase, wr, fl, ret, crashes, base,
                 expected, crash_hdr>>

\* pmem_append_cache_flush() over a directory all of whose slots are free
flush_free_slots(d, h) ==
  IF \A i \in 0..(d.n_caches - 1) : open_cache_at(d, i, h).res = 0
  THEN 0 ELSE -1

\* pmem_append_cache_init(): the startup pass; the directory is closed
\* when the pass fails.
init_flush ==
  /\ dir.pc = "flushing"
  /\ dir' = IF flush_free_slots(dir, hdr) = 0
            THEN [dir EXCEPT !.pc = "ready"]
            ELSE pmem_append_cache_close([dir EXCEPT !.pc = "init_failed"])
  /\ UNCHANGED <<hdr, body, file, cache, phase, wr, fl, ret, crashes, base,
                 expected, crash_hdr>>

\* open_cache() of slot n of an open directory; probe records <<n, res>>.
dir_open_cache(n) ==
  /\ dir.pc = "opened"
  /\ dir.probe = <<>>
  /\ dir' = [dir EXCEPT !.probe = <<n, open_cache_at(dir, n, hdr).res>>]
  /\ UNCHANGED <<hdr, body, file, cache, phase, wr, fl, ret, crashes, base,
                 expected, crash_hdr>>

\* pmem_append_cache_create() called with any size and number of slots.
CreateInit ==
  /\ hdr = FreeHeader
  /\ body = [i \in 0..(BodySize - 1) |-> 0]
  /\ file = <<>>
  /\ cache = NoCache
  /\ phase = "create"
  /\ wr = [w \in Writers |-> IdleWriter]
  /\ fl = NoFlusher
  /\ ret = <<"init", 0, "">>
  /\ crashes = 0
  /\ base = <<>>
  /\ expected = <<>>
  /\ crash_hdr = FreeHeader
  /\ \E size \in 0..MaxDirSize, n_caches \in 0..MaxCaches :
       dir = [Directory(size, n_caches, "start") EXCEPT !.mapped_length = 0]

CreateNext ==
  \/ create_directory
  \/ cd_writeback
  \/ cd_persist_header
  \/ cd_persist_magic
  \/ cd_crash
  \/ pmem_append_cache_open
  \/ \E n \in 0..MaxCaches : dir_open_cache(n)

CreateSpec == CreateInit /\ [][CreateNext]_vars

\* A handle on the dummy directory that pmem_append_cache_init() yields
\* for a null path.
DummyInit ==
  /\ hdr = FreeHeader
  /\ body = [i \in 0..(BodySize - 1) |-> 0]
  /\ \E n \in 0..MaxFileSize : file = [i \in 1..n |-> OldByte]
  /\ cache = NoCache
  /\ phase = "open"
  /\ wr = [w \in Writers |-> IdleWriter]
  /\ fl = NoFlusher
  /\ ret = <<"init", 0, "">>
  /\ crashes = 0
  /\ base = <<>>
  /\ expected = <<>>
  /\ crash_hdr = FreeHeader
  /\ dir = [Directory(0, 0, "dummy") EXCEPT !.dummy = TRUE]

DummyNext ==
  \/ pmem_append_cache_attach
  \/ \E w \in Writers : no_cache_write(w)
  \/ no_cache_flush
  \/ no_cache_sync
  \/ detach_no_cache

DummySpec == DummyInit /\ [][DummyNext]_vars

\* the lengths a file passed to pmem_append_cache_init may have
FileLengthChoices == {8, 16, 24, 32, 56, 64, 96}

\* pmem_append_cache_init() with a null path, or with the path of an
\* existing file that holds anything, asking for arg_n slots.
InitInit ==
  /\ hdr = FreeHeader
  /\ body = [i \in 0..(BodySize - 1) |-> 0]
  /\ file = <<>>
  /\ cache = NoCache
  /\ phase = "init"
  /\ wr = [w \in Writers |-> IdleWriter]
  /\ fl = NoFlusher
  /\ ret = <<"init", 0, "">>
  /\ crashes = 0
  /\ base = <<>>
  /\ expected = <<>>
  /\ crash_hdr = FreeHeader
  /\ \E path \in {"no_path", "closed"}, arg_n \in 1..MaxCaches,
        n_caches \in 0..MaxCaches, mapped_length \in FileLengthChoices,
        magic \in {0, PMEM_APPEND_CACHE_MAGIC},
        offsets \in [0..(MaxCaches - 1) -> {24, 32, 64}] :
       dir = [Directory(0, arg_n, path) EXCEPT
                !.mapped_length = mapped_length,
                !.magic = magic,
                !.n_caches = n_caches,
                !.start_offsets = offsets]

InitNext ==
  \/ init_no_path
  \/ pmem_append_cache_open
  \/ init_n_caches
  \/ init_flush

InitSpec == InitInit /\ [][InitNext]_vars

\* the values a damaged directory file or slot header may hold
OffsetChoices == {16, 24, 28, 32, 56, 64}
LengthChoices == {40, 56, 60, 64}
NameLengthChoices == {0, 1, 7, 8, 9, 40}
EofChoices == 0..3

\* An open directory whose offsets and whose slot header hold anything:
\* pmem_append_cache_open() has checked the magic and n_caches only.
OpenCacheInit ==
  /\ \E l \in NameLengthChoices, f \in EofChoices, c \in EofChoices :
       hdr = [file_name_length |-> l, flushed_eof |-> f, cached_eof |-> c]
  /\ body = [i \in 0..(BodySize - 1) |-> 0]
  /\ file = <<>>
  /\ cache = NoCache
  /\ phase = "open"
  /\ wr = [w \in Writers |-> IdleWriter]
  /\ fl = NoFlusher
  /\ ret = <<"init", 0, "">>
  /\ crashes = 0
  /\ base = <<>>
  /\ expected = <<>>
  /\ crash_hdr = FreeHeader
  /\ \E n_caches \in 1..MaxCaches, mapped_length \in LengthChoices,
        offsets \in [0..(MaxCaches - 1) -> OffsetChoices] :
       /\ ~open_rejects([mapped_length |-> mapped_length,
                         magic |-> PMEM_APPEND_CACHE_MAGIC,
                         n_caches |-> n_caches])
       /\ dir = [Directory(0, 0, "opened") EXCEPT
                   !.mapped_length = mapped_length,
                   !.magic = PMEM_APPEND_CACHE_MAGIC,
                   !.n_caches = n_caches,
                   !.start_offsets = offsets]

OpenCacheNext == \E n \in 0..MaxCaches : dir_open_cache(n)

OpenCacheSpec == OpenCacheInit /\ [][OpenCacheNext]_vars

\* The life of the slot over several runs of the process, attached to a
\* backing file that may hold data already.
LifecycleInit ==
  /\ hdr = FreeHeader
  /\ body = [i \in 0..(BodySize - 1) |-> 0]
  /\ \E n \in 0..MaxFileSize : file = [i \in 1..n |-> OldByte]
  /\ cache = NoCache
  /\ phase = "open"
  /\ wr = [w \in Writers |-> IdleWriter]
  /\ fl = NoFlusher
  /\ ret = <<"init", 0, "">>
  /\ crashes = 0
  /\ base = <<>>
  /\ expected = <<>>
  /\ crash_hdr = FreeHeader
  /\ dir = SlotDirectory

LifecycleNext ==
  \/ Next
  \/ process_exit
  \/ file_truncate

LifecycleSpec == LifecycleInit /\ [][LifecycleNext]_vars

\* Callers that break the rules of the interface: detach while cache_write
\* calls are in progress, attach to a slot that is attached already.
MisuseNext ==
  \/ LiveNext
  \/ detach_stop_busy
  \/ attach_claimed

MisuseSpec == Init /\ [][MisuseNext]_vars

(* ------------------------------ claims -------------------------------- *)

Attached == phase \in {"attached", "stopping"}
AttachOffset == Len(base)
InCall(w) == wr[w].pc # "idle"
AllReturned == \A w \in Writers : ~InCall(w)

\* C1: after all cache_write calls have returned and detach has succeeded,
\* the backing file is what it was at attach followed by the payloads of the
\* calls in reservation order: every offset holds the byte of the one call
\* whose reserved range contains it.
C1_FileHoldsPayloads ==
  (phase = "open" /\ ret = <<"detach", 0, "">>) => file = base \o expected

\* C2: while the slot is attached, cached_eof - flushed_eof <= buffer_size,
\* for the descriptor's copies and for the header's values.
C2_RingWithinCapacity ==
  Attached =>
    /\ cache.cached_eof - cache.flushed_eof <= cache.buffer_size
    /\ hdr.cached_eof - hdr.flushed_eof <= cache.buffer_size

\* C3: a chunk [write_pos, write_pos + avail) is copied into the ring only
\* while write_pos + avail <= flushed_eof + buffer_size.
C3_CopyWithinFreedSpace ==
  \A w \in Writers :
    wr[w].pc = "copy" =>
      wr[w].write_pos + wr[w].avail <= cache.flushed_eof + cache.buffer_size

C7_RecoveryReplays ==
  ( /\ ret[1] = "flush_all"
    /\ ret[3] # "io"
    /\ crash_hdr.flushed_eof < crash_hdr.cached_eof ) =>
      /\ ret[2] = 0
      /\ file = base \o SubSeq(expected, 1, crash_hdr.cached_eof - AttachOffset)

\* C8: when the startup pass has returned success the slot is free.
C8_RecoveredSlotFree ==
  (ret[1] = "flush_all" /\ ret[2] = 0) => hdr.file_name_length = 0

ChunkEnds(w) ==
  IF wr[w].pc \in {"wait_order", "commit_hdr", "commit_rt"}
  THEN {wr[w].write_pos - wr[w].avail, wr[w].write_pos}
  ELSE {wr[w].write_pos}

C11_OrderlyDetachKeepsAll ==
  (phase = "open" /\ ret[1] = "detach") =>
    /\ ret[2] = 0
    /\ hdr.file_name_length = 0
    /\ hdr.flushed_eof = hdr.cached_eof
    /\ Len(file) = hdr.cached_eof
    /\ \A i \in 1..Len(expected) : file[AttachOffset + i] = expected[i]

\* C12: when detach returns, it has freed the slot (file_name_length 0
\* persisted, return 0) exactly if the descriptor's flushed_eof equalled
\* cached_eof after the join; otherwise it returned -1 and left the header
\* as it was, the slot still claimed.  Name, ring and file are untouched.
C12_DetachFreesIffDrained ==
  [][(phase = "stopping" /\ phase' = "open") =>
       /\ IF cache.flushed_eof = cache.cached_eof
          THEN /\ hdr' = [hdr EXCEPT !.file_name_length = 0]
               /\ ret' = <<"detach", 0, "">>
          ELSE /\ hdr' = hdr
               /\ hdr.file_name_length # 0
               /\ ret' = <<"detach", -1, "">>
       /\ UNCHANGED <<body, file>>]_vars

\* detach has failed on an undrained slot, which stays claimed
C12_Witness ==
  /\ phase = "open"
  /\ ret = <<"detach", -1, "">>
  /\ hdr.file_name_length # 0
  /\ hdr.flushed_eof < hdr.cached_eof

\* C13: attach to a slot whose persisted file_name_length is nonzero returns
\* -1, changes neither header, name, ring nor file, and starts no flusher;
\* no second descriptor ever holds an attached slot.
C13_ClaimedSlotRefused ==
  /\ [][( /\ phase \in {"open", "attached", "stopping"}
          /\ hdr.file_name_length # 0
          /\ \/ ret' # ret /\ ret'[1] = "attach"
             \/ phase' \in {"attach_stored", "attached_twice"} ) =>
          /\ ret' = <<"attach", -1, "">>
          /\ UNCHANGED <<hdr, body, file, cache, fl, phase>>]_vars
  /\ [](phase # "attached_twice")

\* attach was refused while the slot is attached and holds unflushed data
C13_Witness ==
  /\ phase = "attached"
  /\ ret = <<"attach", -1, "">>
  /\ hdr.flushed_eof < hdr.cached_eof
  /\ fl.pc # "off"

\* the phases inside pmem_append_cache_attach() once it has stored something
AttachPhases == {"attach_stored", "attach_claiming"}

\* C14: at every point inside attach, and after a crash at any such point,
\* the durable slot is either free (file_name_length 0) or claimed with the
\* whole NUL-terminated name and flushed_eof = cached_eof = size the
\* backing file had at attach durable.
C14_AttachClaimsLast ==
  ( \/ phase \in AttachPhases
    \/ phase = "down" /\ ret[1] = "crash" /\ ret[3] \in AttachPhases ) =>
      \/ hdr.file_name_length = 0
      \/ /\ hdr.file_name_length = Len(FileName)
         /\ \A i \in 1..Len(FileName) : body[i - 1] = FileName[i]
         /\ body[hdr.file_name_length - 1] = 0
         /\ hdr.flushed_eof = AttachOffset
         /\ hdr.cached_eof = AttachOffset
         /\ phase \in AttachPhases => AttachOffset = Len(file)

\* a crash inside attach after file_name_length became durable, on a slot
\* whose offsets had to change
C14_Witness ==
  /\ phase = "down"
  /\ ret = <<"crash", 0, "attach_claiming">>
  /\ hdr.file_name_length # 0
  /\ hdr.flushed_eof # 0

\* C15: whenever the magic is durable in the directory file, n_caches and
\* every start offset are durable too; so a directory left by a crash inside
\* create_directory either fails the open-time magic check or is complete.
C15_MagicLast ==
  /\ dir.magic = PMEM_APPEND_CACHE_MAGIC =>
       /\ dir.n_caches = dir.arg_n
       /\ \A i \in 0..(dir.arg_n - 1) :
            dir.start_offsets[i] = start_offset(dir.arg_size, dir.arg_n, i)
  /\ dir.pc = "opened" => dir.magic = PMEM_APPEND_CACHE_MAGIC
  /\ (dir.pc = "open_failed" /\ dir.magic # PMEM_APPEND_CACHE_MAGIC) =>
       dir.crashed

\* the magic became durable before its pmem_persist(), the process died
\* there, and the directory of MaxCaches slots opens
C15_Witness ==
  /\ dir.crashed
  /\ dir.pc = "opened"
  /\ dir.n_caches = MaxCaches
  /\ dir.start_offsets[MaxCaches - 1] > dir.start_offsets[0]

\* the end of slot i's region in the directory as it is mapped
RegionEnd(i) ==
  IF i = dir.n_caches - 1 THEN dir.mapped_length ELSE dir.start_offsets[i + 1]

\* C18: in every directory create_directory has built, every start offset is
\* 8-byte aligned and at or behind the directory header, every slot region
\* holds its header and at least one buffer byte, and open_cache succeeds on
\* every slot.
C18_CreatedDirectoryUsable ==
  (dir.pc = "opened" /\ ~dir.crashed) =>
    /\ \A i \in 0..(dir.n_caches - 1) :
         /\ dir.start_offsets[i] % 8 = 0
         /\ dir.start_offsets[i] >= directory_header_size(dir.n_caches)
         /\ RegionEnd(i) - dir.start_offsets[i] > CACHE_HEADER_SIZE
    /\ (dir.probe # <<>> /\ dir.probe[1] < dir.n_caches) => dir.probe[2] = 0

\* the conditions under which the specification lets open_cache(n) fail, on
\* the mapped directory and the slot's persisted header, in plain integers
ListedFailure(n) ==
  \/ n >= dir.n_caches
  \/ LET cache_start == dir.start_offsets[n]
         cache_end == RegionEnd(n)
         room == cache_end - cache_start - CACHE_HEADER_SIZE
     IN  \/ cache_start < DIR_HEADER_SIZE + OFFSET_SIZE * dir.n_caches
         \/ cache_start > cache_end
         \/ \A k \in 0..(cache_start \div 8) : cache_start # 8 * k
         \/ room < 0
         \/ cache_end > dir.mapped_length
         \/ hdr.file_name_length >= room
         \/ hdr.cached_eof < hdr.flushed_eof
         \/ hdr.cached_eof - hdr.flushed_eof > room - hdr.file_name_length

\* C19: open_cache(n) returns -1 exactly when n is out of range, the region
\* starts inside the directory header, is inverted, unaligned, shorter than
\* a slot header or reaches beyond the mapped length, file_name_length does
\* not fit strictly inside the region behind the header, cached_eof is below
\* flushed_eof, or their difference exceeds buffer_size; and it changes
\* nothing that is persisted.
C19_OpenCacheValidates ==
  /\ [](dir.probe # <<>> =>
          (dir.probe[2] = -1 <=> ListedFailure(dir.probe[1])))
  /\ [](dir.probe # <<>> => dir.probe[2] \in {0, -1})
  /\ [][dir.probe' # dir.probe =>
          /\ UNCHANGED <<hdr, body, file>>
          /\ dir' = [dir EXCEPT !.probe = dir.probe']]_vars

\* open_cache has accepted the first of two slots with a name and unflushed
\* data in it, and has refused a slot
C19_Witness ==
  /\ dir.probe = <<0, 0>>
  /\ dir.n_caches = 2
  /\ hdr.file_name_length > 0
  /\ hdr.flushed_eof < hdr.cached_eof

\* C16: the startup pass on a claimed slot whose flushed_eof equals
\* cached_eof frees the slot and returns 0 without touching the backing
\* file, the ring or the offsets; on a free slot it changes nothing and
\* returns 0, so a second pass changes nothing at all.
C16_CleanPassIdempotent ==
  [][(phase = "down" /\ phase' # "down") =>
       /\ (hdr.file_name_length # 0 /\ hdr.flushed_eof = hdr.cached_eof) =>
            /\ hdr' = [hdr EXCEPT !.file_name_length = 0]
            /\ ret' = <<"flush_all", 0, "clean">>
            /\ phase' = "open"
            /\ UNCHANGED <<body, file>>
       /\ hdr.file_name_length = 0 =>
            /\ ret' = <<"flush_all", 0, "free">>
            /\ phase' = "open"
            /\ UNCHANGED <<hdr, body, file>>]_vars

\* C17: the startup pass fails on the stored file name only when the name is
\* not NUL-terminated within its declared length, i.e. when the byte at
\* file_name[file_name_length - 1] is not NUL; a name written by attach
\* passes whatever the ring holds.
C17_NameCheckExact ==
  (ret[1] = "flush_all" /\ ret[3] = "file_name") =>
    body[hdr.file_name_length - 1] # 0

\* C20: the descriptor's flushed_eof never exceeds the header's, which never
\* exceeds the number of bytes in the backing file; and a chunk is copied
\* only into ring space whose former bytes are in the file and recorded as
\* flushed in the header.
C20_FlushedOnlyWhenDurable ==
  /\ phase \in {"attached", "stopping", "recovery"} =>
       /\ cache.flushed_eof <= hdr.flushed_eof
       /\ hdr.flushed_eof <= Len(file)
  /\ \A w \in Writers :
       wr[w].pc = "copy" =>
         /\ wr[w].write_pos + wr[w].avail - cache.buffer_size
              <= hdr.flushed_eof
         /\ wr[w].write_pos + wr[w].avail - cache.buffer_size <= Len(file)

\* C21: a failed pwrite or sync in the flusher thread leaves flushed_eof as
\* it was in the header and ends the process; the startup pass that follows
\* then drains the slot, after which the backing file holds every byte
\* committed up to the persisted cached_eof.
C21_IoFailureRecovered ==
  [][/\ (phase \in {"attached", "stopping"} /\ ret'[1] = "abort") =>
          /\ fl.pc = "fc_pwrite"
          /\ hdr' = hdr
          /\ phase' = "down"
     /\ ( /\ phase = "down"
          /\ ret[1] = "abort"
          /\ crash_hdr.flushed_eof < crash_hdr.cached_eof
          /\ phase' # "down" ) => phase' = "recovery"
     /\ (phase = "recovery" /\ ret[1] = "abort" /\ phase' = "open") =>
          /\ hdr'.flushed_eof = crash_hdr.cached_eof
          /\ file' = base \o SubSeq(expected, 1,
                                    crash_hdr.cached_eof - AttachOffset)]_vars

\* C22: the startup pass on a dirty slot whose backing file is shorter than
\* the persisted flushed_eof returns -1, writes nothing to the file and
\* leaves flushed_eof, cached_eof and file_name_length as they were.
C22_TruncatedFileRefused ==
  [][( /\ phase = "down"
       /\ phase' # "down"
       /\ hdr.file_name_length # 0
       /\ hdr.flushed_eof < hdr.cached_eof
       /\ hdr.flushed_eof > Len(file) ) =>
          /\ ret'[1] = "flush_all"
          /\ ret'[2] = -1
          /\ phase' = "failed"
          /\ UNCHANGED <<hdr, body, file>>]_vars

\* the pass has failed on the size of the file of a dirty slot
C22_Witness ==
  /\ phase = "failed"
  /\ ret = <<"flush_all", -1, "st_size">>
  /\ hdr.flushed_eof > Len(file)
  /\ hdr.flushed_eof < hdr.cached_eof

\* the four open-time checks on the file as it is mapped, in plain integers
OpenListedFailure ==
  \/ dir.mapped_length < DIR_HEADER_SIZE
  \/ dir.magic # PMEM_APPEND_CACHE_MAGIC
  \/ dir.n_caches = 0
  \/ DIR_HEADER_SIZE + OFFSET_SIZE * dir.n_caches > dir.mapped_length

\* C24: pmem_append_cache_open returns failure with the file unmapped when
\* the mapped length does not cover the directory header, the magic is
\* wrong, n_caches is zero or the offset table does not fit; it succeeds, the
\* file mapped, only when all four checks pass; and it never changes the file.
C24_OpenFailsClosed ==
  /\ [](dir.pc = "open_failed" => ~dir.mapped)
  /\ [](OpenListedFailure => dir.pc \in {"no_path", "dummy", "closed",
                                         "open_failed"})
  /\ [](dir.pc \in {"opened", "flushing", "ready"} =>
          ~OpenListedFailure /\ dir.mapped)
  /\ [][<<dir.mapped_length, dir.magic, dir.n_caches, dir.start_offsets>>'
          = <<dir.mapped_length, dir.magic, dir.n_caches,
              dir.start_offsets>>]_vars

\* C30: pmem_append_cache_init on an existing path returns success only when
\* the directory passed the open-time checks, holds at least the requested
\* number of slots and the startup pass succeeded on every slot; whenever it
\* returns failure the file is unmapped; with a null path it yields a dummy
\* directory and neither maps nor changes a file.
C30_InitAllOrNothing ==
  /\ [](dir.pc = "ready" =>
          /\ ~OpenListedFailure
          /\ dir.n_caches >= dir.arg_n
          /\ \A i \in 0..(dir.n_caches - 1) : ~ListedFailure(i)
          /\ dir.mapped
          /\ ~dir.dummy)
  /\ [](dir.pc \in {"open_failed", "init_failed"} => ~dir.mapped)
  /\ [](dir.pc = "dummy" => dir.dummy /\ ~dir.mapped)
  /\ [][dir.pc = "no_path" =>
          <<dir.mapped_length, dir.magic, dir.n_caches, dir.start_offsets>>'
            = <<dir.mapped_length, dir.magic, dir.n_caches,
                dir.start_offsets>>]_vars

\* C23: on a dummy directory attach succeeds, claims no slot and starts no
\* flusher; the bytes of every write go straight to the backing file, in the
\* order of the calls; flush and sync change nothing persisted; detach
\* returns 0 and changes nothing persisted.
C23_PassThrough ==
  /\ [](/\ hdr = FreeHeader
        /\ \A i \in 0..(BodySize - 1) : body[i] = 0
        /\ fl = NoFlusher
        /\ cache = NoCache)
  /\ [](phase = "pass_through" => file = base \o expected)
  /\ [][phase = "open" /\ ret' # ret =>
          ret' = <<"attach", 0, "">> /\ phase' = "pass_through"]_vars
  /\ [][phase = "pass_through" /\ phase' = "open" =>
          ret' = <<"detach", 0, "">> /\ file' = file]_vars

\* a pass-through handle has written two payloads and has been detached
C23_Witness ==
  /\ dir.dummy
  /\ phase = "open"
  /\ ret = <<"detach", 0, "">>
  /\ Len(expected) > MaxLen
  /\ file = base \o expected

C26_ChunkWithinRing ==
  /\ [](\A w \in Writers :
          wr[w].pc = "copy" =>
            /\ 1 <= wr[w].avail
            /\ wr[w].avail <= wr[w].left
            /\ (wr[w].write_pos % cache.buffer_size) + wr[w].avail
                 <= cache.buffer_size
            /\ cache.buffer + cache.buffer_size <= BodySize)
  /\ [][\A w \in Writers :
          wr[w].pc = "copy" /\ wr'[w].pc = "wait_order" =>
            /\ wr'[w].left < wr[w].left
            /\ wr'[w].write_pos = wr[w].write_pos + wr[w].avail
            /\ \A i \in 0..(BodySize - 1) :
                 body'[i] # body[i] =>
                   /\ i >= cache.buffer + (wr[w].write_pos % cache.buffer_size)
                   /\ i < cache.buffer + (wr[w].write_pos % cache.buffer_size)
                            + wr[w].avail]_vars

\* a chunk clipped at the wrap boundary: it starts inside the ring, ends at
\* its end, and leaves part of the call for the next iteration
C26_Witness ==
  \E w \in Writers :
    /\ wr[w].pc = "copy"
    /\ wr[w].write_pos % cache.buffer_size # 0
    /\ (wr[w].write_pos % cache.buffer_size) + wr[w].avail = cache.buffer_size
    /\ wr[w].avail < wr[w].left

\* C27: each run of the drain loop has a size between 1 and cached_eof -
\* flushed_eof, lies within the ring (clipped at the wrap boundary), is
\* written at file offset flushed_eof, and flushed_eof then advances by the
\* bytes written; the byte written at file offset o is the byte committed
\* for logical offset o.
C27_DrainRun ==
  /\ [](fl.pc = "fc_pwrite" =>
          /\ 1 <= fl.write_size
          /\ fl.write_size <= cache.cached_eof - fl.flushed_eof
          /\ (fl.flushed_eof % cache.buffer_size) + fl.write_size
               <= cache.buffer_size)
  /\ [][fl.pc = "fc_pwrite" /\ fl'.pc = "fc_store_hdr" =>
          /\ 1 <= fl'.written
          /\ fl'.written <= fl.write_size
          /\ Len(file') >= fl.flushed_eof + fl'.written
          /\ \A o \in 0..(Len(file') - 1) :
               IF o >= fl.flushed_eof /\ o < fl.flushed_eof + fl'.written
               THEN /\ file'[o + 1] =
                         body[cache.buffer + (o % cache.buffer_size)]
                    /\ file'[o + 1] = (base \o expected)[o + 1]
               ELSE o < Len(file) /\ file'[o + 1] = file[o + 1]]_vars
  /\ [][fl.pc = "fc_store_hdr" /\ fl'.pc = "fc_store_rt" =>
          /\ fl'.flushed_eof = fl.flushed_eof + fl.written
          /\ hdr'.flushed_eof = fl.flushed_eof + fl.written]_vars

(* ----------------- reservation at large file offsets ------------------ *)

\* sizes of the backing file at attach, around the sign bit of the low half,
\* the 2^32 boundary and the next one
ReserveChoices ==
  {(UINT32_MOD \div 2) - 2, (UINT32_MOD \div 2) - 1, UINT32_MOD - 2,
   UINT32_MOD - 1, UINT32_MOD, UINT32_MOD + 1, (2 * UINT32_MOD) - 1}

ReserveInit ==
  /\ hdr = FreeHeader
  /\ body = [i \in 0..(BodySize - 1) |-> 0]
  /\ \E n \in ReserveChoices : file = [i \in 1..n |-> OldByte]
  /\ cache = NoCache
  /\ phase = "open"
  /\ wr = [w \in Writers |-> IdleWriter]
  /\ fl = NoFlusher
  /\ ret = <<"init", 0, "">>
  /\ crashes = 0
  /\ base = <<>>
  /\ expected = <<>>
  /\ crash_hdr = FreeHeader
  /\ dir = SlotDirectory

\* attach to the file, then the reservations of concurrent cache_write calls
ReserveNext ==
  \/ pmem_append_cache_attach
  \/ attach_persist
  \/ attach_claim_persist
  \/ \E w \in Writers : cw_reserve(w)

ReserveSpec == ReserveInit /\ [][ReserveNext]_vars

\* C28: each cache_write call obtains as start the previous value of
\* reserved_eof and adds its length to it, so the ranges of the calls tile
\* [attach offset, reserved_eof) without gaps or overlap, also at and across
\* the 2^32 boundary.
C28_ReservationTiles ==
  /\ [][\A w \in Writers :
          wr[w].pc = "idle" /\ wr'[w].pc # "idle" =>
            /\ wr'[w].start = cache.reserved_eof
            /\ wr'[w].start = AttachOffset + Len(expected)
            /\ cache'.reserved_eof = cache.reserved_eof + wr'[w].length]_vars
  /\ [](phase = "attached" =>
          /\ cache.reserved_eof = AttachOffset + Len(expected)
          /\ \A w, v \in Writers :
               InCall(w) /\ InCall(v) /\ w # v =>
                 \/ wr[w].start + wr[w].length <= wr[v].start
                 \/ wr[v].start + wr[v].length <= wr[w].start)

\* C29: cache_flush(offset) returns only when flushed_eof >= offset, an
\* offset of 0 standing for the cached_eof at the start of the call, so on
\* return every byte committed before the call is in the backing file; with
\* the flusher thread scheduled the call returns for every offset up to
\* cached_eof.
C29_FlushWaitsForOffset ==
  /\ [][\A w \in Writers :
          /\ wr[w].pc = "idle" /\ wr'[w].pc = "flush_wait" =>
               wr'[w].offset = IF wr'[w].arg = 0 THEN cache.cached_eof
                               ELSE wr'[w].arg
          /\ wr[w].pc = "flush_wait" /\ wr'[w].pc = "idle" =>
               /\ cache.flushed_eof >= wr[w].offset
               /\ hdr.flushed_eof >= wr[w].offset
               /\ Len(file) >= wr[w].offset
               /\ \A o \in 0..(wr[w].offset - 1) :
                    file[o + 1] = (base \o expected)[o + 1]]_vars
  /\ \A w \in Writers :
       (wr[w].pc = "flush_wait" /\ wr[w].offset <= cache.cached_eof)
         ~> (wr[w].pc = "idle")

\* C31: while writers and the flusher act on an attached slot, and after a
\* crash at any such point, the persisted slot header is one that open_cache
\* accepts, so the startup pass that follows is never refused by open_cache.
C31_CrashHeaderAccepted ==
  /\ []((\/ phase \in {"attached", "stopping"}
         \/ /\ phase = "down"
            /\ ret[1] = "crash"
            /\ ret[3] \in {"attached", "stopping"}) =>
          /\ open_cache(hdr).res = 0
          /\ hdr.file_name_length < BodySize
          /\ hdr.flushed_eof <= hdr.cached_eof
          /\ hdr.cached_eof - hdr.flushed_eof
               <= BodySize - hdr.file_name_length)
  /\ [][(/\ phase = "down"
         /\ ret[1] = "crash"
         /\ ret[3] \in {"attached", "stopping"}
         /\ phase' # "down") =>
          ret' # <<"flush_all", -1, "open_cache">>]_vars

\* C32: the buffer base and buffer_size that open_cache computes from the
\* persisted header are those of the attached descriptor, behind the header
\* and the k bytes of the file name, and they are what the startup pass
\* drains with after a crash.
C32_SameRingGeometry ==
  /\ phase \in {"attached", "stopping"} =>
       /\ hdr.file_name_length = Len(FileName)
       /\ cache.buffer = Len(FileName)
       /\ cache.buffer_size = BodySize - Len(FileName)
       /\ open_cache(hdr).cache.buffer = cache.buffer
       /\ open_cache(hdr).cache.buffer_size = cache.buffer_size
  /\ phase = "recovery" =>
       /\ crash_hdr.file_name_length = Len(FileName)
       /\ cache.buffer = Len(FileName)
       /\ cache.buffer_size = BodySize - Len(FileName)
       /\ cache.buffer = open_cache(hdr).cache.buffer
       /\ cache.buffer_size = open_cache(hdr).cache.buffer_size

\* the startup pass after a crash reads a run that starts inside the ring
C32_Witness ==
  /\ phase = "recovery"
  /\ ret[1] = "crash"
  /\ fl.pc = "fc_pwrite"
  /\ fl.flushed_eof % cache.buffer_size # 0

\* C33: while a slot is attached, no step of a writer or of the flusher
\* lowers flushed_eof or cached_eof, in the header or in the descriptor, or
\* reserved_eof.
C33_EofsNeverDecrease ==
  [][(phase \in {"attached", "stopping"} /\ phase' \in {"attached", "stopping"})
       => /\ hdr'.flushed_eof >= hdr.flushed_eof
          /\ hdr'.cached_eof >= hdr.cached_eof
          /\ cache'.flushed_eof >= cache.flushed_eof
          /\ cache'.cached_eof >= cache.cached_eof
          /\ cache'.reserved_eof >= cache.reserved_eof]_vars

(* ------------------- attach to slots of several sizes ----------------- *)

\* bytes behind the slot header, from none up to the whole modelled body
RoomChoices == 0..BodySize

AttachInit ==
  /\ hdr = FreeHeader
  /\ body = [i \in 0..(BodySize - 1) |-> 0]
  /\ file = <<>>
  /\ cache = NoCache
  /\ phase = "open"
  /\ wr = [w \in Writers |-> IdleWriter]
  /\ fl = NoFlusher
  /\ ret = <<"init", 0, "">>
  /\ crashes = 0
  /\ base = <<>>
  /\ expected = <<>>
  /\ crash_hdr = FreeHeader
  /\ \E room \in RoomChoices :
       dir = [created_directory(directory_header_size(1) + CACHE_HEADER_SIZE
                                  + room, 1)
                EXCEPT !.pc = "ready", !.mapped = TRUE]

AttachSpec == AttachInit /\ [][LiveNext]_vars

\* the bytes of slot 0 behind its header
SlotRoom == dir.mapped_length - dir.start_offsets[0] - CACHE_HEADER_SIZE

\* C34: a handle that attach has set up in cached mode has buffer_size >= 1
\* behind the file name, and attach fails when the name with its NUL does not
\* leave one ring byte; so every modulo and division by buffer_size in
\* cache_write and flush_cache has a non-zero divisor.
C34_RingNotEmpty ==
  /\ phase \in {"attached", "stopping"} =>
       /\ cache.buffer_size >= 1
       /\ cache.buffer_size = SlotRoom - Len(FileName)
       /\ cache.buffer = Len(FileName)
  /\ (\A w \in Writers : wr[w].pc # "idle" => cache.buffer_size >= 1)
  /\ fl.pc \in {"fc_load", "fc_pwrite"} => cache.buffer_size >= 1
  /\ SlotRoom - Len(FileName) < 1 =>
       /\ phase = "open"
       /\ hdr = FreeHeader
       /\ ret \in {<<"init", 0, "">>, <<"attach", -1, "">>}

\* a writer and the flusher at work on the smallest ring attach accepts
C34_Witness ==
  /\ phase = "attached"
  /\ cache.buffer_size = 1
  /\ \E w \in Writers : wr[w].pc = "copy" /\ wr[w].write_pos > 0
  /\ fl.pc = "fc_pwrite"

====
